---- MODULE Spec2Model ----
(***************************************************************************)
(* Model of projet_notes/control.py: the per-pseudo feature aggregators,   *)
(* creer_df (the wide table built by successive left merges),              *)
(* separation_train_test, enlever_correlations_complets, encodage and      *)
(* scaling.                                                                *)
(*                                                                         *)
(* A table is a sequence of rows; a row is a function from column names to *)
(* values.  A quotient is kept as the pair <<numerator, denominator>>;     *)
(* NaN is the pair <<0, 0>>.  A calendar day is its ordinal number, a      *)
(* clock time "HH:MM:SS" is the triple <<HH, MM, SS>>, a category label is  *)
(* its rank in the sort order of the labels.                               *)
(***************************************************************************)
EXTENDS Integers, Sequences, FiniteSets, TLC

VARIABLES df_logs, df, df_notes, ret, pc

vars == <<df_logs, df, df_notes, ret, pc>>

(* ---------------------------------------------------------------------- *)
(* Bounds of the model                                                     *)
(* ---------------------------------------------------------------------- *)
MaxLogs == 3
MaxJour == 3
NumCat == 2

Pseudos == {1, 2}
Jours == 1..MaxJour
Cats == 1..NumCat
Heures ==
    {<<2, 15, 0>>, <<7, 0, 0>>, <<13, 0, 0>>, <<18, 0, 0>>, <<22, 0, 0>>, <<23, 59, 59>>}

NaN == <<0, 0>>

(* ---------------------------------------------------------------------- *)
(* Helpers: sets, sequences, tables                                        *)
(* ---------------------------------------------------------------------- *)
MinOf(S) == CHOOSE x \in S : \A y \in S : x <= y
MaxOf(S) == CHOOSE x \in S : \A y \in S : x >= y

RECURSIVE SortedSeq(_)
SortedSeq(S) == IF S = {} THEN <<>> ELSE <<MinOf(S)>> \o SortedSeq(S \ {MinOf(S)})

RECURSIVE SumSeq(_)
SumSeq(s) == IF s = <<>> THEN 0 ELSE Head(s) + SumSeq(Tail(s))

RECURSIVE Flatten(_)
Flatten(ss) == IF ss = <<>> THEN <<>> ELSE Head(ss) \o Flatten(Tail(ss))

Range(s) == {s[i] : i \in DOMAIN s}
Column(t, c) == [i \in DOMAIN t |-> t[i][c]]
Columns(t) == IF t = <<>> THEN {} ELSE DOMAIN t[1]

\* the number of rows of t holding v in column c
CountEq(t, c, v) == Cardinality({i \in DOMAIN t : t[i][c] = v})

\* df[c] = vals: assignment of a column to the table itself (in place)
AddColumn(t, c, vals) == [i \in DOMAIN t |-> (c :> vals[i]) @@ t[i]]

PseudoSet(t) == {t[i].pseudo : i \in DOMAIN t}

\* groupby('pseudo'): the groups in sorted key order, rows in table order
PseudoKeys(t) == SortedSeq(PseudoSet(t))
Group(t, p) == SelectSeq(t, LAMBDA r : r.pseudo = p)

\* groupby('pseudo')[...].agg(...).reset_index(name=name), agg[p] being the
\* aggregate of the group of pseudo p
GroupAgg(t, name, agg) ==
    LET keys == PseudoKeys(t)
    IN  [k \in 1..Len(keys) |-> ("pseudo" :> keys[k]) @@ (name :> agg[keys[k]])]

\* groupby(['pseudo', 'jour']).size() of one pseudo: the counts in day order
DayCounts(g) ==
    LET days == SortedSeq({g[i].jour : i \in DOMAIN g})
    IN  [k \in 1..Len(days) |-> CountEq(g, "jour", days[k])]

\* left.merge(right, on="pseudo", how="left")
LeftMerge(left, right) ==
    Flatten([i \in DOMAIN left |->
        LET m == SelectSeq(right, LAMBDA r : r.pseudo = left[i].pseudo)
        IN  IF m = <<>>
            THEN <<left[i] @@ [c \in Columns(right) \ {"pseudo"} |-> NaN]>>
            ELSE [j \in DOMAIN m |-> left[i] @@ m[j]]])

\* left.merge(right, on="pseudo")  (how="inner")
InnerMerge(left, right) ==
    Flatten([i \in DOMAIN left |->
        LET m == SelectSeq(right, LAMBDA r : r.pseudo = left[i].pseudo)
        IN  [j \in DOMAIN m |-> left[i] @@ m[j]]])

(* ---------------------------------------------------------------------- *)
(* Aggregators                                                             *)
(* ---------------------------------------------------------------------- *)
nb_actions(logs) ==
    GroupAgg(logs, "nb_actions", [p \in PseudoSet(logs) |-> Len(Group(logs, p))])

moyenne_actions_par_jour(logs) ==
    GroupAgg(logs, "moyenne_nb_actions",
        [p \in PseudoSet(logs) |->
            LET g == Group(logs, p)
            IN  <<SumSeq(DayCounts(g)), Len(DayCounts(g))>>])

max_actions_par_jour(logs) ==
    GroupAgg(logs, "max_nb_actions",
        [p \in PseudoSet(logs) |->
            LET g == Group(logs, p)
            IN  MaxOf(Range(DayCounts(g)))])

\* the column holds the square of the sample standard deviation
\* (n*Sum(x^2) - Sum(x)^2) / (n*(n-1)); NaN for a single day
SampleVar(x) ==
    LET n == Len(x)
        sq == [i \in DOMAIN x |-> x[i] * x[i]]
    IN  IF n < 2 THEN NaN
        ELSE <<n * SumSeq(sq) - SumSeq(x) * SumSeq(x), n * (n - 1)>>

variabilite_activite(logs) ==
    GroupAgg(logs, "std_actions_par_jour",
        [p \in PseudoSet(logs) |->
            LET g == Group(logs, p)
            IN  SampleVar(DayCounts(g))])

nb_jours_avec_action(logs) ==
    GroupAgg(logs, "nb_jours_avec_action",
        [p \in PseudoSet(logs) |->
            LET g == Group(logs, p)
            IN  Cardinality({g[i].jour : i \in DOMAIN g})])

\* faulty variant of tempsdiff: the day of the last row minus the day of the
\* first row of the group
tempsdiff_first_last(logs) ==
    GroupAgg(logs, "tempsdiff_jours",
        [p \in PseudoSet(logs) |->
            LET g == Group(logs, p)
            IN  g[Len(g)].jour - g[1].jour])

tempsdiff(logs) ==
    GroupAgg(logs, "tempsdiff_jours",
        [p \in PseudoSet(logs) |->
            LET g == Group(logs, p)
            IN  MaxOf({g[i].jour : i \in DOMAIN g})
                - MinOf({g[i].jour : i \in DOMAIN g})])

\* faulty variant of constance_activite: no .replace(0, 1)
constance_activite_no_replace(logs) ==
    LET res == InnerMerge(nb_jours_avec_action(logs), tempsdiff(logs))
    IN  [i \in DOMAIN res |->
            [pseudo |-> res[i].pseudo,
             constance_activite |->
                <<res[i].nb_jours_avec_action, res[i].tempsdiff_jours>>]]

constance_activite(logs) ==
    LET res == InnerMerge(nb_jours_avec_action(logs), tempsdiff(logs))
    IN  [i \in DOMAIN res |->
            [pseudo |-> res[i].pseudo,
             constance_activite |->
                <<res[i].nb_jours_avec_action,
                  IF res[i].tempsdiff_jours = 0 THEN 1
                  ELSE res[i].tempsdiff_jours>>]]

\* .dt.weekday, lundi=0 ... dimanche=6; day 1 of the calendar is a Friday
Weekday(jour) == (jour + 3) % 7

\* the mean of a boolean column: number of True over number of rows
MeanBool(g, c) == <<CountEq(g, c, TRUE), Len(g)>>

semaine_vs_weekend_logs(logs) ==
    LET t == AddColumn(logs, "jour_semaine",
                       [i \in DOMAIN logs |-> Weekday(logs[i].jour)])
    IN  AddColumn(t, "is_weekend", [i \in DOMAIN t |-> t[i].jour_semaine >= 5])

semaine_vs_weekend(logs) ==
    GroupAgg(semaine_vs_weekend_logs(logs), "pct_weekend",
        [p \in PseudoSet(logs) |->
            LET g == Group(semaine_vs_weekend_logs(logs), p)
            IN  MeanBool(g, "is_weekend")])

\* a clock time <<HH, MM, SS>> in seconds since midnight
Seconds(h) == h[1] * 3600 + h[2] * 60 + h[3]

\* per (pseudo, jour): (max - min).total_seconds() / 60 of the column heure,
\* then the mean over the days of the pseudo
periode_moyen_activite(logs) ==
    GroupAgg(logs, "activite_moyenne_par_jour_min",
        [p \in PseudoSet(logs) |->
            LET g == Group(logs, p)
                days == SortedSeq({g[i].jour : i \in DOMAIN g})
                OfDay(d) == {g[i].heure : i \in {n \in DOMAIN g : g[n].jour = d}}
                span == [k \in DOMAIN days |->
                            MaxOf(OfDay(days[k])) - MinOf(OfDay(days[k]))]
            IN  <<SumSeq(span), 60 * Len(days)>>])

\* pd.to_datetime(heures, format="%H:%M:%S").dt.hour
HeureSeule(logs) == [i \in DOMAIN logs |-> logs[i].heures[1]]

pourcentage_nuit_logs(logs) ==
    LET t == AddColumn(logs, "heure_seule", HeureSeule(logs))
    IN  AddColumn(t, "pourcentage_nuit",
                  [i \in DOMAIN t |-> (t[i].heure_seule < 7) \/ (t[i].heure_seule >= 22)])

pourcentage_nuit(logs) ==
    GroupAgg(pourcentage_nuit_logs(logs), "pourcentage_activite_nuit",
        [p \in PseudoSet(logs) |->
            LET g == Group(pourcentage_nuit_logs(logs), p)
            IN  MeanBool(g, "pourcentage_nuit")])

\* faulty variant of pourcentage_matin: heure_seule > 7
pourcentage_matin_logs_strict(logs) ==
    LET t == AddColumn(logs, "heure_seule", HeureSeule(logs))
    IN  AddColumn(t, "pourcentage_matin",
                  [i \in DOMAIN t |-> (t[i].heure_seule > 7) /\ (t[i].heure_seule < 13)])

pourcentage_matin_logs(logs) ==
    LET t == AddColumn(logs, "heure_seule", HeureSeule(logs))
    IN  AddColumn(t, "pourcentage_matin",
                  [i \in DOMAIN t |-> (t[i].heure_seule >= 7) /\ (t[i].heure_seule < 13)])

pourcentage_matin(logs) ==
    GroupAgg(pourcentage_matin_logs(logs), "pourcentage_activite_matin",
        [p \in PseudoSet(logs) |->
            LET g == Group(pourcentage_matin_logs(logs), p)
            IN  MeanBool(g, "pourcentage_matin")])

pourcentage_aprem_logs(logs) ==
    LET t == AddColumn(logs, "heure_seule", HeureSeule(logs))
    IN  AddColumn(t, "pourcentage_aprem",
                  [i \in DOMAIN t |-> (t[i].heure_seule >= 13) /\ (t[i].heure_seule < 18)])

pourcentage_aprem(logs) ==
    GroupAgg(pourcentage_aprem_logs(logs), "pourcentage_activite_aprem",
        [p \in PseudoSet(logs) |->
            LET g == Group(pourcentage_aprem_logs(logs), p)
            IN  MeanBool(g, "pourcentage_aprem")])

pourcentage_soir_logs(logs) ==
    LET t == AddColumn(logs, "heure_seule", HeureSeule(logs))
    IN  AddColumn(t, "pourcentage_soir",
                  [i \in DOMAIN t |-> (t[i].heure_seule >= 18) /\ (t[i].heure_seule < 22)])

pourcentage_soir(logs) ==
    GroupAgg(pourcentage_soir_logs(logs), "pourcentage_activite_soir",
        [p \in PseudoSet(logs) |->
            LET g == Group(pourcentage_soir_logs(logs), p)
            IN  MeanBool(g, "pourcentage_soir")])

(* ---------------------------------------------------------------------- *)
(* Aggregators over a categorical column (composant, contexte_general,     *)
(* evenement)                                                              *)
(* ---------------------------------------------------------------------- *)
\* the distinct elements of a sequence, in order of first appearance
RECURSIVE FirstSeen(_)
FirstSeen(s) ==
    IF s = <<>> THEN <<>>
    ELSE LET rest == FirstSeen(SubSeq(s, 1, Len(s) - 1))
         IN  IF s[Len(s)] \in Range(rest) THEN rest ELSE Append(rest, s[Len(s)])

NUnique(logs, col, name) ==
    GroupAgg(logs, name,
        [p \in PseudoSet(logs) |->
            LET g == Group(logs, p)
            IN  Cardinality({g[i][col] : i \in DOMAIN g})])

nb_composant(logs) == NUnique(logs, "composant", "nb_composant")
nb_contexte_gen(logs) == NUnique(logs, "contexte_general", "nb_contexte")

\* pd.crosstab(pseudo, col).reset_index(), columns renamed prefix_<value>
Crosstab(logs, col, prefix) ==
    LET keys == PseudoKeys(logs)
        vals == {logs[i][col] : i \in DOMAIN logs}
        Name(v) == prefix \o "_" \o ToString(v)
    IN  [k \in 1..Len(keys) |->
            ("pseudo" :> keys[k]) @@
            [c \in {Name(v) : v \in vals} |->
                CountEq(Group(logs, keys[k]), col,
                        CHOOSE v \in vals : Name(v) = c)]]

nb_chaque_composant(logs) == Crosstab(logs, "composant", "composant")
nb_chaque_contexte(logs) == Crosstab(logs, "contexte_general", "contexte")
nb_chaque_evenement(logs) == Crosstab(logs, "evenement", "evenement")

\* faulty variant of GroupSize, groupby(['pseudo', col], sort=False): the
\* values in order of first appearance
GroupSizeUnsorted(logs, col) ==
    LET keys == PseudoKeys(logs)
    IN  Flatten([k \in 1..Len(keys) |->
            LET g == Group(logs, keys[k])
                vals == FirstSeen(Column(g, col))
            IN  [v \in DOMAIN vals |->
                    ("pseudo" :> keys[k]) @@ (col :> vals[v]) @@
                    ("count" :> CountEq(g, col, vals[v]))]])

\* groupby(['pseudo', col]).size().reset_index(name='count'): one row per
\* (pseudo, value) present, sorted by pseudo, then by value
GroupSize(logs, col) ==
    LET keys == PseudoKeys(logs)
    IN  Flatten([k \in 1..Len(keys) |->
            LET g == Group(logs, keys[k])
                vals == SortedSeq({g[i][col] : i \in DOMAIN g})
            IN  [v \in DOMAIN vals |->
                    ("pseudo" :> keys[k]) @@ (col :> vals[v]) @@
                    ("count" :> CountEq(g, col, vals[v]))]])

\* faulty variant of IdxMax: every row label holding the maximum of its
\* pseudo
IdxMaxAll(tc) ==
    SortedSeq({i \in DOMAIN tc :
        \A j \in DOMAIN tc : tc[j].pseudo = tc[i].pseudo => tc[j].count <= tc[i].count})

\* groupby('pseudo')['count'].idxmax(): per pseudo, in sorted key order, the
\* row label of the first occurrence of the maximum
IdxMax(tc) ==
    LET keys == PseudoKeys(tc)
    IN  [k \in 1..Len(keys) |->
            MinOf({i \in DOMAIN tc :
                /\ tc[i].pseudo = keys[k]
                /\ \A j \in DOMAIN tc :
                    tc[j].pseudo = keys[k] => tc[j].count <= tc[i].count})]

\* tc.loc[idxmax, ['pseudo', col]].rename(columns={col: name})
Top(logs, col, name) ==
    LET tc == GroupSize(logs, col)
        idx == IdxMax(tc)
    IN  [n \in DOMAIN idx |->
            ("pseudo" :> tc[idx[n]].pseudo) @@ (name :> tc[idx[n]][col])]

top_composant(logs) == Top(logs, "composant", "top_composant")
top_contexte(logs) == Top(logs, "contexte_general", "top_contexte")
top_evenement(logs) == Top(logs, "evenement", "top_evenement")

(* ---------------------------------------------------------------------- *)
(* creer_df: one step per line of the function; pc names the call about to *)
(* be made                                                                 *)
(* ---------------------------------------------------------------------- *)
EventColumns ==
    {"pseudo", "jour", "heure", "heures", "composant", "contexte_general", "evenement"}

\* heure is the clock time as a time value, heures the same time as the
\* text "HH:MM:SS"
Event(p, j, h, c, g, e) ==
    [pseudo |-> p, jour |-> j, heure |-> Seconds(h), heures |-> h,
     composant |-> c, contexte_general |-> g, evenement |-> e]

\* event tables: the rows differ in the pseudo and in one family of columns
EventsJour == {Event(p, j, <<7, 0, 0>>, 1, 1, 1) : p \in Pseudos, j \in Jours}
EventsHeure == {Event(p, 1, h, 1, 1, 1) : p \in Pseudos, h \in Heures}
EventsComposant == {Event(p, 1, <<7, 0, 0>>, c, 1, 1) : p \in Pseudos, c \in Cats}
EventsContexte == {Event(p, 1, <<7, 0, 0>>, 1, c, 1) : p \in Pseudos, c \in Cats}
EventsEvenement == {Event(p, 1, <<7, 0, 0>>, 1, 1, c) : p \in Pseudos, c \in Cats}

\* rows that differ in every column at once
EventsMixed ==
    {Event(p, d[1], d[2], c, NumCat + 1 - c, c) :
        p \in Pseudos, d \in {<<1, <<7, 0, 0>>>>, <<MaxJour, <<23, 59, 59>>>>},
        c \in {1, NumCat}}

EventFamilies ==
    {EventsJour, EventsHeure, EventsComposant, EventsContexte, EventsEvenement,
     EventsMixed}

\* a non-empty event table of at most MaxLogs rows
Init ==
    /\ \E n \in 1..MaxLogs : \E E \in EventFamilies : df_logs \in [1..n -> E]
    /\ df = <<>>
    /\ df_notes = <<>>
    /\ ret = <<>>
    /\ pc = "nb_actions"

\* df = df.merge(res, on="pseudo", how="left"), the aggregator having left
\* the event table as logs
MergeStep(here, next, res, logs) ==
    /\ pc = here
    /\ df' = LeftMerge(df, res)
    /\ df_logs' = logs
    /\ pc' = next
    /\ UNCHANGED <<df_notes, ret>>

Call_nb_actions ==
    /\ pc = "nb_actions"
    /\ df' = nb_actions(df_logs)
    /\ pc' = "moyenne_actions_par_jour"
    /\ UNCHANGED <<df_logs, df_notes, ret>>

Call_moyenne_actions_par_jour ==
    MergeStep("moyenne_actions_par_jour", "nb_jours_avec_action",
              moyenne_actions_par_jour(df_logs), df_logs)

Call_nb_jours_avec_action ==
    MergeStep("nb_jours_avec_action", "variabilite_activite",
              nb_jours_avec_action(df_logs), df_logs)

Call_variabilite_activite ==
    MergeStep("variabilite_activite", "tempsdiff",
              variabilite_activite(df_logs), df_logs)

Call_tempsdiff ==
    MergeStep("tempsdiff", "constance_activite", tempsdiff(df_logs), df_logs)

Call_constance_activite ==
    MergeStep("constance_activite", "periode_moyen_activite",
              constance_activite(df_logs), df_logs)

Call_periode_moyen_activite ==
    MergeStep("periode_moyen_activite", "pourcentage_nuit",
              periode_moyen_activite(df_logs), df_logs)

Call_pourcentage_nuit ==
    MergeStep("pourcentage_nuit", "pourcentage_matin",
              pourcentage_nuit(df_logs), pourcentage_nuit_logs(df_logs))

Call_pourcentage_matin ==
    MergeStep("pourcentage_matin", "pourcentage_aprem",
              pourcentage_matin(df_logs), pourcentage_matin_logs(df_logs))

Call_pourcentage_aprem ==
    MergeStep("pourcentage_aprem", "pourcentage_soir",
              pourcentage_aprem(df_logs), pourcentage_aprem_logs(df_logs))

Call_pourcentage_soir ==
    MergeStep("pourcentage_soir", "semaine_vs_weekend",
              pourcentage_soir(df_logs), pourcentage_soir_logs(df_logs))

Call_semaine_vs_weekend ==
    MergeStep("semaine_vs_weekend", "nb_contexte_gen",
              semaine_vs_weekend(df_logs), semaine_vs_weekend_logs(df_logs))

Call_nb_contexte_gen ==
    MergeStep("nb_contexte_gen", "nb_composant", nb_contexte_gen(df_logs), df_logs)

Call_nb_composant ==
    MergeStep("nb_composant", "nb_chaque_contexte", nb_composant(df_logs), df_logs)

Call_nb_chaque_contexte ==
    MergeStep("nb_chaque_contexte", "top_contexte",
              nb_chaque_contexte(df_logs), df_logs)

Call_top_contexte ==
    MergeStep("top_contexte", "nb_chaque_composant", top_contexte(df_logs), df_logs)

Call_nb_chaque_composant ==
    MergeStep("nb_chaque_composant", "top_composant",
              nb_chaque_composant(df_logs), df_logs)

Call_top_composant ==
    MergeStep("top_composant", "nb_chaque_evenement", top_composant(df_logs), df_logs)

Call_nb_chaque_evenement ==
    MergeStep("nb_chaque_evenement", "top_evenement",
              nb_chaque_evenement(df_logs), df_logs)

Call_top_evenement ==
    MergeStep("top_evenement", "return", top_evenement(df_logs), df_logs)

Next ==
    \/ Call_nb_actions
    \/ Call_moyenne_actions_par_jour
    \/ Call_nb_jours_avec_action
    \/ Call_variabilite_activite
    \/ Call_tempsdiff
    \/ Call_constance_activite
    \/ Call_periode_moyen_activite
    \/ Call_pourcentage_nuit
    \/ Call_pourcentage_matin
    \/ Call_pourcentage_aprem
    \/ Call_pourcentage_soir
    \/ Call_semaine_vs_weekend
    \/ Call_nb_contexte_gen
    \/ Call_nb_composant
    \/ Call_nb_chaque_contexte
    \/ Call_top_contexte
    \/ Call_nb_chaque_composant
    \/ Call_top_composant
    \/ Call_nb_chaque_evenement
    \/ Call_top_evenement

Spec == Init /\ [][Next]_vars

(* ---------------------------------------------------------------------- *)
(* Properties of creer_df and of the aggregators (specification Spec)      *)
(* ---------------------------------------------------------------------- *)
Has(c) == df # <<>> /\ c \in Columns(df)
LogsOf(p) == Group(df_logs, p)
LogPseudos == {df_logs[i].pseudo : i \in DOMAIN df_logs}

\* quotients <<n, d>>
IsOne(q) == q[2] # 0 /\ q[1] = q[2]
IsZero(q) == q[2] # 0 /\ q[1] = 0
RatAdd(a, b) == <<a[1] * b[2] + b[1] * a[2], a[2] * b[2]>>

\* C1: from the first line of creer_df on, and after each of the left
\* merges, the wide table has exactly one row for each distinct pseudo of
\* the event table and no other row: as many rows as nb_actions returns.
C1_OneRowPerPseudo ==
    pc # "nb_actions" =>
        /\ Len(df) = Len(nb_actions(df_logs))
        /\ \A p \in LogPseudos : Cardinality({i \in DOMAIN df : df[i].pseudo = p}) = 1
        /\ \A i \in DOMAIN df : df[i].pseudo \in LogPseudos

\* creer_df has returned for two pseudos, one of which has two components
\* tied for the highest count
C1_Witness ==
    /\ pc = "return"
    /\ Len(df) = 2
    /\ \E i, j \in DOMAIN df_logs :
        /\ df_logs[i].pseudo = df_logs[j].pseudo
        /\ df_logs[i].composant # df_logs[j].composant
        /\ Len(LogsOf(df_logs[i].pseudo)) = 2

\* C2 as stated: constance_activite is in (0, 1] when tempsdiff_jours > 0,
\* and equals nb_jours_avec_action when tempsdiff_jours = 0.
C2_ConstanceInUnitInterval ==
    Has("constance_activite") =>
        \A i \in DOMAIN df :
            LET c == df[i].constance_activite
            IN  /\ df[i].tempsdiff_jours > 0 => c[2] > 0 /\ 0 < c[1] /\ c[1] <= c[2]
                /\ df[i].tempsdiff_jours = 0 =>
                        c[2] # 0 /\ c[1] = df[i].nb_jours_avec_action * c[2]

\* C2 amended: constance_activite is nb_jours_avec_action / tempsdiff_jours,
\* in (0, 2] and at most (tempsdiff_jours + 1) / tempsdiff_jours, when
\* tempsdiff_jours > 0; it equals nb_jours_avec_action when
\* tempsdiff_jours = 0.
C2_ConstanceAmended ==
    Has("constance_activite") =>
        \A i \in DOMAIN df :
            LET c == df[i].constance_activite
                td == df[i].tempsdiff_jours
            IN  /\ td > 0 =>
                    /\ c[2] > 0 /\ 0 < c[1] /\ c[1] <= 2 * c[2]
                    /\ c[1] * td = df[i].nb_jours_avec_action * c[2]
                    /\ c[1] * td <= (td + 1) * c[2]
                /\ td = 0 =>
                        c[2] # 0 /\ c[1] = df[i].nb_jours_avec_action * c[2]

\* both cases are present: a pseudo active on two consecutive days
\* (constance 2) and a pseudo active on a single day
C2_Witness ==
    /\ pc = "return"
    /\ \E i \in DOMAIN df :
        df[i].tempsdiff_jours = 1 /\ df[i].constance_activite = <<2, 1>>
    /\ \E i \in DOMAIN df :
        df[i].tempsdiff_jours = 0 /\ df[i].constance_activite = <<1, 1>>

\* the bucket of an hour, as the four intervals are stated
Bucket(h) ==
    IF h < 7 \/ h >= 22 THEN "nuit"
    ELSE IF h < 13 THEN "matin"
    ELSE IF h < 18 THEN "aprem"
    ELSE "soir"

\* C3: once the four time-of-day calls are made, each event is flagged in
\* exactly one of the four buckets, the one of its hour; the four fractions
\* of each pseudo sum to 1; a pseudo whose events are all at hours 23 and 2
\* has night fraction 1 and the other three 0.
C3_BucketsPartition ==
    Has("pourcentage_activite_soir") =>
        /\ \A i \in DOMAIN df_logs :
            LET r == df_logs[i]
                b == Bucket(r.heures[1])
            IN  /\ r.pourcentage_nuit = (b = "nuit")
                /\ r.pourcentage_matin = (b = "matin")
                /\ r.pourcentage_aprem = (b = "aprem")
                /\ r.pourcentage_soir = (b = "soir")
        /\ \A i \in DOMAIN df :
            /\ IsOne(RatAdd(RatAdd(df[i].pourcentage_activite_nuit,
                                   df[i].pourcentage_activite_matin),
                            RatAdd(df[i].pourcentage_activite_aprem,
                                   df[i].pourcentage_activite_soir)))
            /\ (\A r \in Range(LogsOf(df[i].pseudo)) : r.heures[1] \in {23, 2}) =>
                    /\ IsOne(df[i].pourcentage_activite_nuit)
                    /\ IsZero(df[i].pourcentage_activite_matin)
                    /\ IsZero(df[i].pourcentage_activite_aprem)
                    /\ IsZero(df[i].pourcentage_activite_soir)

\* a pseudo with events at hours 23 and 2 only, beside a pseudo with an
\* event at 07:00:00
C3_Witness ==
    /\ pc = "return"
    /\ \E p \in LogPseudos :
        {r.heures[1] : r \in Range(LogsOf(p))} = {23, 2}
    /\ \E p \in LogPseudos :
        \E r \in Range(LogsOf(p)) : r.heures = <<7, 0, 0>>

\* C8: nb_jours_avec_action <= tempsdiff_jours + 1 for every pseudo.
C8_ActiveDaysWithinSpan ==
    Has("tempsdiff_jours") =>
        \A i \in DOMAIN df :
            df[i].nb_jours_avec_action <= df[i].tempsdiff_jours + 1

\* a pseudo whose last event is not on its last day: active on days 3 and 1,
\* in that order
C8_Witness ==
    /\ pc = "return"
    /\ \E i \in DOMAIN df :
        /\ df[i].nb_jours_avec_action = 2
        /\ df[i].tempsdiff_jours = 2
        /\ LogsOf(df[i].pseudo)[1].jour = 3

\* C9: no call changes the event table: same columns, same values.
C9_EventTableUnchanged == [][df_logs' = df_logs]_vars

Count(p, col, v) == CountEq(LogsOf(p), col, v)

IsTop(p, col, v) ==
    /\ Count(p, col, v) > 0
    /\ \A w \in Cats : Count(p, col, w) <= Count(p, col, v)
    /\ \A w \in Cats : Count(p, col, w) = Count(p, col, v) => v <= w

\* C10: creer_df's top_composant, top_contexte and top_evenement hold, for
\* each pseudo, one value: a value of the highest count of the pseudo and,
\* among those of the highest count, the one that sorts first, whatever the
\* order of the rows of the event table.
C10_TopIsFirstOfMost ==
    pc = "return" =>
        /\ \A p \in LogPseudos :
            /\ Cardinality({i \in DOMAIN top_composant(df_logs) :
                                top_composant(df_logs)[i].pseudo = p}) = 1
            /\ Cardinality({i \in DOMAIN top_contexte(df_logs) :
                                top_contexte(df_logs)[i].pseudo = p}) = 1
            /\ Cardinality({i \in DOMAIN top_evenement(df_logs) :
                                top_evenement(df_logs)[i].pseudo = p}) = 1
        /\ \A i \in DOMAIN df :
            /\ IsTop(df[i].pseudo, "composant", df[i].top_composant)
            /\ IsTop(df[i].pseudo, "contexte_general", df[i].top_contexte)
            /\ IsTop(df[i].pseudo, "evenement", df[i].top_evenement)

\* a tie, in one of the three dimensions, in which the value that sorts last
\* comes first in the event table
C10_Witness ==
    /\ pc = "return"
    /\ \E col \in {"composant", "contexte_general", "evenement"} :
        \E p \in LogPseudos :
            /\ LogsOf(p)[1][col] = 2
            /\ Count(p, col, 1) = Count(p, col, 2)

(* ---------------------------------------------------------------------- *)
(* separation_train_test (specification SpecSplit)                         *)
(* ---------------------------------------------------------------------- *)
MaxSubjects == 3
MaxNotes == 4
\* test_size=0.2 is one row in TestSizeInv
TestSizeInv == 5

Subjects == 1..MaxSubjects

\* a wide table as creer_df returns it: one row per pseudo, in key order
FeatureTable(S) ==
    [k \in 1..Cardinality(S) |->
        [pseudo |-> SortedSeq(S)[k], nb_actions |-> SortedSeq(S)[k]]]

\* a label table: rows in any order, a pseudo on any number of rows, each
\* row with a note of its own
NoteTable(ps) == [k \in DOMAIN ps |-> [pseudo |-> ps[k], note |-> k]]

ShufflesOf(n) ==
    {f \in [1..n -> 1..n] : \A a, b \in 1..n : a # b => f[a] # f[b]}

\* a table with the default RangeIndex: row k has the label k - 1
Indexed(t) == [k \in DOMAIN t |-> [idx |-> k - 1, row |-> t[k]]]

\* t.drop(cols, axis=1) of an indexed table
Drop(t, cols) ==
    [k \in DOMAIN t |->
        [idx |-> t[k].idx,
         row |-> [c \in DOMAIN t[k].row \ cols |-> t[k].row[c]]]]

NTest(n) == (n + TestSizeInv - 1) \div TestSizeInv

\* faulty variant of TrainPositions: the test rows stay in the train part
TrainPositionsAll(perm) == perm

\* ShuffleSplit: the first n_test places of the permutation are the test
\* rows, the following n_train = n - n_test places the train rows
TrainPositions(perm) == SubSeq(perm, NTest(Len(perm)) + 1, Len(perm))
TestPositions(perm) == SubSeq(perm, 1, NTest(Len(perm)))

Take(t, pos) == [k \in DOMAIN pos |-> t[pos[k]]]

\* train_test_split(X, y, test_size=0.2, random_state=1) for the permutation
\* perm the seeded generator draws; X and y are cut at the same positions
train_test_split(X, y, perm) ==
    [error |-> "none",
     X_train |-> Take(X, TrainPositions(perm)),
     X_test |-> Take(X, TestPositions(perm)),
     y_train |-> Take(y, TrainPositions(perm)),
     y_test |-> Take(y, TestPositions(perm))]

ValueError ==
    [error |-> "ValueError",
     X_train |-> <<>>, X_test |-> <<>>, y_train |-> <<>>, y_test |-> <<>>]

InitSplit ==
    /\ df_logs = <<>>
    /\ \E S \in SUBSET Subjects \ {{}} : df = FeatureTable(S)
    /\ \E n \in 1..MaxNotes : \E ps \in [1..n -> Subjects] : df_notes = NoteTable(ps)
    /\ ret = <<>>
    /\ pc = "separation_train_test"

separation_train_test ==
    /\ pc = "separation_train_test"
    /\ LET df_all == Indexed(InnerMerge(df, df_notes))
           y == [k \in DOMAIN df_all |->
                    [idx |-> df_all[k].idx, note |-> df_all[k].row.note]]
           X == Drop(df_all, {"note", "pseudo"})
           n == Len(df_all)
       IN  \/ /\ n - NTest(n) = 0
              /\ ret' = ValueError
           \/ /\ n - NTest(n) > 0
              /\ \E perm \in ShufflesOf(n) : ret' = train_test_split(X, y, perm)
    /\ pc' = "return"
    /\ UNCHANGED <<df_logs, df, df_notes>>

NextSplit == separation_train_test

SpecSplit == InitSplit /\ [][NextSplit]_vars

Shared == {df[i].pseudo : i \in DOMAIN df} \cap {df_notes[i].pseudo : i \in DOMAIN df_notes}

NotesUnique ==
    \A i, j \in DOMAIN df_notes : df_notes[i].pseudo = df_notes[j].pseudo => i = j

\* the rows of both parts, as <<part, place in the part>>
Places ==
    {<<"train", k>> : k \in DOMAIN ret.X_train} \cup {<<"test", k>> : k \in DOMAIN ret.X_test}
XAt(pl) == IF pl[1] = "train" THEN ret.X_train[pl[2]] ELSE ret.X_test[pl[2]]
YAt(pl) == IF pl[1] = "train" THEN ret.y_train[pl[2]] ELSE ret.y_test[pl[2]]

\* the place holds the feature row of pseudo p and a note of pseudo p
HoldsSubject(pl, p) ==
    /\ XAt(pl).row.nb_actions = p
    /\ \E i \in DOMAIN df_notes :
        df_notes[i].pseudo = p /\ df_notes[i].note = YAt(pl).note

\* the result is a disjoint cover of the shared pseudos, each exactly once,
\* features and notes aligned, neither pseudo nor note among the features
SplitIsPartition ==
    /\ ret.error = "none"
    /\ Len(ret.X_train) = Len(ret.y_train)
    /\ Len(ret.X_test) = Len(ret.y_test)
    /\ \A pl \in Places :
        /\ XAt(pl).idx = YAt(pl).idx
        /\ \E p \in Shared : HoldsSubject(pl, p)
        /\ DOMAIN XAt(pl).row \cap {"pseudo", "note"} = {}
    /\ \A p \in Shared : Cardinality({pl \in Places : HoldsSubject(pl, p)}) = 1
    /\ \A a, b \in Places : a # b => XAt(a).idx # XAt(b).idx

\* C7 as stated: with at least one shared pseudo the call returns a train
\* part and a test part that are disjoint, hold every shared pseudo exactly
\* once, aligned, without pseudo and note among the features; with no
\* shared pseudo the call fails.
C7_SplitDisjointCover ==
    pc = "return" =>
        /\ Shared # {} => SplitIsPartition
        /\ Shared = {} => ret.error = "ValueError"

\* C7 amended: for a label table with at most one row per pseudo, the call
\* returns such a partition when the tables share at least two pseudos, and
\* fails when they share fewer than two.
C7_SplitAmended ==
    (pc = "return" /\ NotesUnique) =>
        /\ Cardinality(Shared) >= 2 => SplitIsPartition
        /\ Cardinality(Shared) < 2 => ret.error = "ValueError"

\* two shared pseudos, the label table in another order than the feature
\* table and with a pseudo the feature table lacks; the test row is not the
\* first one
C7_Witness ==
    /\ pc = "return"
    /\ NotesUnique
    /\ Cardinality(Shared) = 2
    /\ Len(df) = 2
    /\ Len(df_notes) = 3
    /\ df_notes[1].pseudo > df_notes[2].pseudo
    /\ ret.error = "none"
    /\ Len(ret.X_train) = 1
    /\ ret.X_test[1].idx = 1

(* ---------------------------------------------------------------------- *)
(* enlever_correlations_complets (specification SpecCorr)                  *)
(*                                                                         *)
(* A table of the transformation stage is a record: columns, the column    *)
(* names in order; dtypes, the dtype of each column; index, the row labels *)
(* in order; rows, the rows in order.  Correlations are exact.             *)
(* ---------------------------------------------------------------------- *)
MaxVal == 2

CorrIndex == <<0, 1, 2>>
CorrColumns == <<"nb_actions", "top_composant", "nb_composant", "nb_contexte">>
CorrDtypes ==
    [nb_actions |-> "int64", top_composant |-> "object",
     nb_composant |-> "int64", nb_contexte |-> "int64"]

CorrTable(a, b, c) ==
    [columns |-> CorrColumns, dtypes |-> CorrDtypes, index |-> CorrIndex,
     rows |-> [k \in DOMAIN CorrIndex |->
                [nb_actions |-> a[k], top_composant |-> 1,
                 nb_composant |-> b[k], nb_contexte |-> c[k]]]]

\* df.select_dtypes(include=['float64', 'int64']).columns, in column order
NumericColumns(t) ==
    SelectSeq(t.columns, LAMBDA c : t.dtypes[c] \in {"float64", "int64"})

\* n * Sum(x*y) - Sum(x) * Sum(y): n^2 times the covariance of two columns
Cov(t, x, y) ==
    LET n == Len(t.rows)
    IN  n * SumSeq([k \in DOMAIN t.rows |-> t.rows[k][x] * t.rows[k][y]])
        - SumSeq(Column(t.rows, x)) * SumSeq(Column(t.rows, y))

\* abs(corr) == 1: cov^2 = var * var with both variances positive (the
\* correlation with a constant column is NaN, which is not 1)
PerfectCorr(t, x, y) ==
    /\ Cov(t, x, x) > 0
    /\ Cov(t, y, y) > 0
    /\ Cov(t, x, y) * Cov(t, x, y) = Cov(t, x, x) * Cov(t, y, y)

\* faulty variant of ColumnsToDrop: the column is named by its place in df,
\* not in corr_matrix
ColumnsToDropByDfPlace(t) ==
    LET num == NumericColumns(t)
    IN  {t.columns[i] : i \in {n \in DOMAIN num :
            \E j \in 1..(n - 1) : PerfectCorr(t, num[n], num[j])}}

\* the double loop: column i of corr_matrix is marked when some column
\* j < i of corr_matrix has abs(corr_matrix.iloc[i, j]) == 1
ColumnsToDrop(t) ==
    LET num == NumericColumns(t)
    IN  {num[i] : i \in {n \in DOMAIN num :
            \E j \in 1..(n - 1) : PerfectCorr(t, num[n], num[j])}}

\* df.drop(columns=cols)
DropColumns(t, cols) ==
    [columns |-> SelectSeq(t.columns, LAMBDA c : c \notin cols),
     dtypes |-> [c \in DOMAIN t.dtypes \ cols |-> t.dtypes[c]],
     index |-> t.index,
     rows |-> [k \in DOMAIN t.rows |->
                [c \in DOMAIN t.rows[k] \ cols |-> t.rows[k][c]]]]

InitCorr ==
    /\ df_logs = <<>>
    /\ \E a, b, c \in [DOMAIN CorrIndex -> 0..MaxVal] : df = CorrTable(a, b, c)
    /\ df_notes = <<>>
    /\ ret = <<>>
    /\ pc = "enlever_correlations_complets"

enlever_correlations_complets ==
    /\ pc = "enlever_correlations_complets"
    /\ ret' = DropColumns(df, ColumnsToDrop(df))
    /\ pc' = "return"
    /\ UNCHANGED <<df_logs, df, df_notes>>

NextCorr == enlever_correlations_complets

SpecCorr == InitCorr /\ [][NextCorr]_vars

\* C4: in the table returned, no two numeric columns are perfectly
\* correlated; a numeric column of the input is removed exactly when a
\* numeric column before it is perfectly correlated with it, so that of a
\* perfectly correlated pair the later column is removed and the first
\* column of the group survives; the other columns and all rows are kept.
C4_NoPerfectCorrelationLeft ==
    pc = "return" =>
        LET num == NumericColumns(df)
            kept == Range(ret.columns)
        IN  /\ \A x, y \in Range(NumericColumns(ret)) :
                x # y => ~PerfectCorr(ret, x, y)
            /\ \A i \in DOMAIN num :
                (num[i] \notin kept) <=>
                    (\E j \in 1..(i - 1) : PerfectCorr(df, num[j], num[i]))
            /\ \A c \in Range(df.columns) : df.dtypes[c] = "object" => c \in kept
            /\ \A k \in DOMAIN df.rows : \A c \in kept : ret.rows[k][c] = df.rows[k][c]

\* nb_composant falls with nb_actions (correlation -1) and is removed,
\* nb_contexte correlates with neither and stays
C4_Witness ==
    /\ pc = "return"
    /\ PerfectCorr(df, "nb_actions", "nb_composant")
    /\ Cov(df, "nb_actions", "nb_composant") < 0
    /\ ret.columns = <<"nb_actions", "top_composant", "nb_contexte">>
    /\ Cov(df, "nb_contexte", "nb_contexte") > 0

(* ---------------------------------------------------------------------- *)
(* encodage (specification SpecEncodage)                                   *)
(* ---------------------------------------------------------------------- *)
MaxEncRows == 3

One == <<1, 1>>
Zero == <<0, 1>>

EncColumns == <<"nb_actions", "top_composant", "top_contexte">>
EncDtypes ==
    [nb_actions |-> "int64", top_composant |-> "object", top_contexte |-> "object"]

\* row labels as a split leaves them: distinct, in any order, not
\* necessarily 0..n-1
EncIndexes(n) ==
    {ix \in [1..n -> 0..MaxEncRows] : \A a, b \in 1..n : a # b => ix[a] # ix[b]}

EncTable(ix, a, b) ==
    [columns |-> EncColumns, dtypes |-> EncDtypes, index |-> ix,
     rows |-> [k \in DOMAIN ix |->
                [nb_actions |-> ix[k] + 1,
                 top_composant |-> a[k], top_contexte |-> b[k]]]]

\* df.select_dtypes(include='object').columns
CategoricalColumns(t) == SelectSeq(t.columns, LAMBDA c : t.dtypes[c] = "object")

\* encoder.categories_ of a column: its distinct values, sorted
Categories(t, c) == SortedSeq({t.rows[k][c] : k \in DOMAIN t.rows})

\* encoder.get_feature_names_out: <column>_<category>, column by column
EncodedName(c, v) == c \o "_" \o ToString(v)
EncodedCols(t) ==
    Flatten([n \in DOMAIN CategoricalColumns(t) |->
        LET c == CategoricalColumns(t)[n]
        IN  [m \in DOMAIN Categories(t, c) |-> EncodedName(c, Categories(t, c)[m])]])

\* row k of encoder.fit_transform(df[categorical_cols])
EncodedRow(t, k) ==
    LET cats == Range(CategoricalColumns(t))
    IN  [name \in Range(EncodedCols(t)) |->
            IF \E c \in cats : name = EncodedName(c, t.rows[k][c]) THEN One ELSE Zero]

\* pd.DataFrame(encoded_array, columns=encoded_cols): a new RangeIndex, row k
\* of the array under the label k - 1
EncodedFrame(t) ==
    [columns |-> EncodedCols(t),
     index |-> [k \in DOMAIN t.rows |-> k - 1],
     rows |-> [k \in DOMAIN t.rows |-> EncodedRow(t, k)]]

\* left.join(right): a left join on the row labels; a label the right frame
\* lacks gives NaN in the right frame's columns
Join(left, right) ==
    [columns |-> left.columns \o right.columns,
     dtypes |-> left.dtypes @@ [c \in Range(right.columns) |-> "float64"],
     index |-> left.index,
     rows |-> [k \in DOMAIN left.rows |->
        IF \E m \in DOMAIN right.index : right.index[m] = left.index[k]
        THEN left.rows[k] @@
             right.rows[CHOOSE m \in DOMAIN right.index : right.index[m] = left.index[k]]
        ELSE left.rows[k] @@ [c \in Range(right.columns) |-> NaN]]]

InitEncodage ==
    /\ df_logs = <<>>
    /\ \E n \in 1..MaxEncRows : \E ix \in EncIndexes(n) :
            \E a, b \in [1..n -> Cats] : df = EncTable(ix, a, b)
    /\ df_notes = <<>>
    /\ ret = <<>>
    /\ pc = "encodage"

encodage ==
    /\ pc = "encodage"
    /\ ret' = Join(DropColumns(df, Range(CategoricalColumns(df))), EncodedFrame(df))
    /\ pc' = "return"
    /\ UNCHANGED <<df_logs, df, df_notes>>

NextEncodage == encodage

SpecEncodage == InitEncodage /\ [][NextEncodage]_vars

\* C6: every row of the input is in the output under its label, its
\* non-categorical values unchanged, each categorical column replaced by one
\* indicator per distinct value of the column, the indicator of the row's
\* own value being the one at 1 and the others at 0.
C6_OneHotRoundTrip ==
    pc = "return" =>
        /\ ret.index = df.index
        /\ \A c \in Range(CategoricalColumns(df)) : c \notin Range(ret.columns)
        /\ \A k \in DOMAIN df.rows :
            /\ ret.rows[k].nb_actions = df.rows[k].nb_actions
            /\ \A c \in Range(CategoricalColumns(df)) :
                \A v \in Range(Categories(df, c)) :
                    /\ EncodedName(c, v) \in DOMAIN ret.rows[k]
                    /\ ret.rows[k][EncodedName(c, v)] =
                            IF df.rows[k][c] = v THEN One ELSE Zero

(* ---------------------------------------------------------------------- *)
(* scaling (specification SpecScaling)                                     *)
(* ---------------------------------------------------------------------- *)
ScaleIndex == <<0, 1, 2>>
ScaleColumns == <<"pseudo", "nb_actions", "top_composant_1">>
ScaleDtypes == [pseudo |-> "int64", nb_actions |-> "int64", top_composant_1 |-> "int64"]

ScaleTable(a, b) ==
    [columns |-> ScaleColumns, dtypes |-> ScaleDtypes, index |-> ScaleIndex,
     rows |-> [k \in DOMAIN ScaleIndex |->
                [pseudo |-> k, nb_actions |-> a[k], top_composant_1 |-> b[k]]]]

ColMin(t, c) == MinOf({t.rows[k][c] : k \in DOMAIN t.rows})
ColMax(t, c) == MaxOf({t.rows[k][c] : k \in DOMAIN t.rows})

\* faulty variant of MinMax: division by the maximum instead of the range
MinMaxByMax(t, c, x) ==
    <<x - ColMin(t, c), IF ColMax(t, c) = 0 THEN 1 ELSE ColMax(t, c)>>

\* MinMaxScaler().fit_transform of one value x of column c:
\* (x - min) / (max - min), a range of 0 being taken as 1
MinMax(t, c, x) ==
    <<x - ColMin(t, c),
      IF ColMax(t, c) - ColMin(t, c) = 0 THEN 1 ELSE ColMax(t, c) - ColMin(t, c)>>

\* df_scaled.columns.difference(['pseudo'])
ColsToScale(t) == Range(t.columns) \ {"pseudo"}

InitScaling ==
    /\ df_logs = <<>>
    /\ \E a, b \in [DOMAIN ScaleIndex -> 0..MaxVal] : df = ScaleTable(a, b)
    /\ df_notes = <<>>
    /\ ret = <<>>
    /\ pc = "scaling"

scaling ==
    /\ pc = "scaling"
    /\ ret' = [df EXCEPT
            !.dtypes = [c \in DOMAIN df.dtypes |->
                            IF c \in ColsToScale(df) THEN "float64" ELSE df.dtypes[c]],
            !.rows = [k \in DOMAIN df.rows |->
                        [c \in DOMAIN df.rows[k] |->
                            IF c \in ColsToScale(df)
                            THEN MinMax(df, c, df.rows[k][c])
                            ELSE df.rows[k][c]]]]
    /\ pc' = "return"
    /\ UNCHANGED <<df_logs, df, df_notes>>

NextScaling == scaling

SpecScaling == InitScaling /\ [][NextScaling]_vars

InUnit(q) == q[2] > 0 /\ 0 <= q[1] /\ q[1] <= q[2]

====
